---- MODULE Spec2Model ----
(***************************************************************************)
(* Model of the Analytics page (src/src/pages/Analytics.tsx): the loaded   *)
(* record sets, the fetch cycle that replaces them, the derived            *)
(* statistics and the two exports (PDF and CSV); and of the Returns page   *)
(* (src/src/pages/Returns.tsx): the list of returns, its fetch, and the    *)
(* form that creates a pending return; of ProfileMenu                      *)
(* (src/unnamed/part_000): the theme; and of ProductDialog                 *)
(* (src/src/components/products/ProductDialog.tsx): the product form.      *)
(*                                                                         *)
(* Text is a sequence of one-character strings, so that joining and        *)
(* splitting on a delimiter are computed, not assumed.  Numbers are        *)
(* integers: quantities are counts and prices whole IDR amounts, all far   *)
(* below 2^53, the range in which JavaScript number arithmetic is exact.   *)
(* An instant is kept as (day, ms): epoch milliseconds are                 *)
(* day * 86400000 + ms, which exceeds the integer range of TLC.            *)
(***************************************************************************)
EXTENDS Integers, Sequences, FiniteSets, TLC

VARIABLES
    products,        \* useState<Product[]>        (Analytics.tsx:40)
    rejectedItems,   \* useState<RejectedItem[]>   (Analytics.tsx:41)
    foodConditions,  \* useState<FoodCondition[]>  (Analytics.tsx:42)
    loading,         \* useState(true)             (Analytics.tsx:43)
    view,            \* "created", "mounted" or "unmounted"
    channels,        \* tables with a live change-notification channel
    inflight,        \* fetchAllData calls suspended at an await
    lastSettled,     \* what the most recently settled fetch cycle received and did
    now,             \* the clock read by new Date()
    saved,           \* the file most recently handed to the browser by an export
    lastToast,       \* title of the most recent toast
    display,         \* what the last render of Analytics put on the page
    returns,         \* useState<Return[]>        (Returns.tsx:24)
    returnsLoading,  \* loading, useState(true)   (Returns.tsx:25)
    dialogOpen,      \* useState(false)           (Returns.tsx:26)
    formData,        \* useState({...})           (Returns.tsx:27-31)
    returnsView,     \* "created" or "mounted": whether the Returns effect has run
    calls,           \* fetchReturns and handleSubmit calls suspended at an await
    returnsTable,    \* the rows of the backend table returns, newest first
    theme,           \* useState<"light" | "dark">("light")   (part_000:19)
    userEmail,       \* useState<string>("")                  (part_000:20)
    menuView,        \* "created", "mounted" or "unmounted": the ProfileMenu effect
    emailCalls,      \* getUser promises of ProfileMenu not yet answered: TRUE for the mounted menu's
    localTheme,      \* localStorage item "theme"
    darkClass,       \* whether document.documentElement has class "dark"
    prefersDark,     \* the media query (prefers-color-scheme: dark)
    openProp,        \* prop open of ProductDialog
    product,         \* prop product of ProductDialog
    formValues,      \* the values of the form held by useForm
    defaultValues,   \* the default values held by useForm
    emitted          \* the calls ProductDialog made while handling the latest event

vars == <<products, rejectedItems, foodConditions, loading, view, channels, inflight,
          lastSettled, now, saved, lastToast, display,
          returns, returnsLoading, dialogOpen, formData, returnsView, calls, returnsTable,
          theme, userEmail, menuView, emailCalls, localTheme, darkClass, prefersDark,
          openProp, product, formValues, defaultValues, emitted>>

\* The state of the Returns page and of the table behind it.
returnsVars == <<returns, returnsLoading, dialogOpen, formData, returnsView, calls,
                 returnsTable>>

\* The state of ProfileMenu and of the browser around it.
menuVars == <<theme, userEmail, menuView, emailCalls, localTheme, darkClass, prefersDark>>

\* The state of ProductDialog.
productDialogVars == <<openProp, product, formValues, defaultValues, emitted>>

\* The state of the two components outside the pages.
widgetVars == <<menuVars, productDialogVars>>

\* The state of the Analytics page.
analyticsVars == <<products, rejectedItems, foodConditions, loading, view, channels,
                   inflight, lastSettled, saved, display>>

-----------------------------------------------------------------------------
(* Bounds of the model. *)

MaxRecords == 2
MaxConditions == 4
MaxInflight == 2
MaxReturns == 1

-----------------------------------------------------------------------------
(* Text. *)

None == "none"

Digit == <<"0", "1", "2", "3", "4", "5", "6", "7", "8", "9">>

RECURSIVE NumToText(_)
\* Number::toString of an integer, as Array.prototype.join applies it.
NumToText(n) ==
    IF n < 0 THEN <<"-">> \o NumToText(0 - n)
    ELSE IF n < 10 THEN <<Digit[n + 1]>>
    ELSE NumToText(n \div 10) \o <<Digit[(n % 10) + 1]>>

RECURSIVE Pad(_, _)
\* Zero-padding to a minimum width (date-fns "dd"/"yyyy", toISOString).
Pad(t, width) == IF Len(t) >= width THEN t ELSE Pad(<<"0">> \o t, width)

RECURSIVE Join(_, _)
\* Array.prototype.join: the elements with the separator between them.
Join(parts, sep) ==
    IF parts = <<>> THEN <<>>
    ELSE IF Len(parts) = 1 THEN parts[1]
    ELSE parts[1] \o sep \o Join(Tail(parts), sep)

-----------------------------------------------------------------------------
(* Calendar: the civil date of a day number (days since 1970-01-01). *)

CivilFromDays(z0) ==
    LET z   == z0 + 719468
        era == z \div 146097
        doe == z - era * 146097
        yoe == (doe - doe \div 1460 + doe \div 36524 - doe \div 146096) \div 365
        doy == doe - (365 * yoe + yoe \div 4 - yoe \div 100)
        mp  == (5 * doy + 2) \div 153
        d   == doy - (153 * mp + 2) \div 5 + 1
        m   == IF mp < 10 THEN mp + 3 ELSE mp - 9
        y   == yoe + era * 400 + (IF m <= 2 THEN 1 ELSE 0)
    IN  [year |-> y, month |-> m, day |-> d]

MonthAbbr ==
    << <<"J","a","n">>, <<"F","e","b">>, <<"M","a","r">>, <<"A","p","r">>,
       <<"M","a","y">>, <<"J","u","n">>, <<"J","u","l">>, <<"A","u","g">>,
       <<"S","e","p">>, <<"O","c","t">>, <<"N","o","v">>, <<"D","e","c">> >>

\* date-fns format(new Date(created_at), "MMM dd, yyyy")
FormatDate(createdAt) ==
    LET c == CivilFromDays(createdAt)
    IN  MonthAbbr[c.month] \o <<" ">> \o Pad(NumToText(c.day), 2) \o <<",", " ">>
        \o Pad(NumToText(c.year), 4)

\* Variant: the month is written zero-based, as getUTCMonth() counts it.
IsoDate_ZeroBasedMonth(t) ==
    LET c == CivilFromDays(t.day)
    IN  Pad(NumToText(c.year), 4) \o <<"-">> \o Pad(NumToText(c.month - 1), 2)
        \o <<"-">> \o Pad(NumToText(c.day), 2)

\* new Date().toISOString().split('T')[0]
IsoDate(t) ==
    LET c == CivilFromDays(t.day)
    IN  Pad(NumToText(c.year), 4) \o <<"-">> \o Pad(NumToText(c.month), 2)
        \o <<"-">> \o Pad(NumToText(c.day), 2)

-----------------------------------------------------------------------------
(* The record sets a query can return.  A query orders its rows by a       *)
(* timestamp column, newest first (Analytics.tsx:80, 88, 96).              *)

Beras == <<"B","e","r","a","s">>
TeriAsin == <<"T","e","r","i",",","A","s","i","n">>

ProductUniverse ==
    { [name |-> Beras, category |-> <<"B","i","j","i">>, quantity |-> 10,
       price |-> 12000, created_at |-> 20759],
      [name |-> TeriAsin, category |-> <<"D","a","g","i","n","g">>, quantity |-> 3,
       price |-> 2999, created_at |-> 20759] }

RejectedUniverse ==
    { [product_name |-> Beras, quantity |-> 2,
       reason |-> <<"b","u","s","u","k">>, created_at |-> 20819],
      [product_name |-> TeriAsin, quantity |-> 5,
       reason |-> <<"b","a","u",","," ","l","a","y","u">>, created_at |-> 20758] }

ConditionUniverse ==
    { [fit_for_processing |-> TRUE, inspection_date |-> 20759],
      [fit_for_processing |-> FALSE, inspection_date |-> 20758] }

NewestFirst(keys) ==
    \A i \in 1..Len(keys) : \A j \in i..Len(keys) : keys[i] >= keys[j]

SeqsUpTo(S, n) == UNION { [1..k -> S] : k \in 0..n }

CreatedAt(l) == [i \in 1..Len(l) |-> l[i].created_at]
InspectionDate(l) == [i \in 1..Len(l) |-> l[i].inspection_date]

ProductLists == { l \in SeqsUpTo(ProductUniverse, MaxRecords) : NewestFirst(CreatedAt(l)) }
RejectedLists == { l \in SeqsUpTo(RejectedUniverse, MaxRecords) : NewestFirst(CreatedAt(l)) }
ConditionLists ==
    { l \in SeqsUpTo(ConditionUniverse, MaxConditions) : NewestFirst(InspectionDate(l)) }

-----------------------------------------------------------------------------
(* Calculate statistics (Analytics.tsx:110-116). *)

RECURSIVE ReduceValue_PriceOnly(_)
\* Variant: the quantity factor is left out of the term.
ReduceValue_PriceOnly(ps) ==
    IF ps = <<>> THEN 0
    ELSE ReduceValue_PriceOnly(SubSeq(ps, 1, Len(ps) - 1)) + ps[Len(ps)].price

\* Variant: the callback returns the term instead of adding it to the sum.
ReduceValue_LastOnly(ps) ==
    IF ps = <<>> THEN 0 ELSE ps[Len(ps)].price * ps[Len(ps)].quantity

RECURSIVE ReduceValue(_)
\* ps.reduce((sum, p) => sum + (p.price * p.quantity), 0)
ReduceValue(ps) ==
    IF ps = <<>> THEN 0
    ELSE ReduceValue(SubSeq(ps, 1, Len(ps) - 1))
         + (ps[Len(ps)].price * ps[Len(ps)].quantity)

RECURSIVE ReduceRejected(_)
\* rs.reduce((sum, r) => sum + r.quantity, 0)
ReduceRejected(rs) ==
    IF rs = <<>> THEN 0
    ELSE ReduceRejected(SubSeq(rs, 1, Len(rs) - 1)) + rs[Len(rs)].quantity

\* Variant: the stock is taken net of the rejected units.
ReduceStock_NetOfRejected(ps) == ReduceRejected(ps) - ReduceRejected(rejectedItems)

RECURSIVE ReduceStock(_)
\* ps.reduce((sum, p) => sum + p.quantity, 0)
ReduceStock(ps) ==
    IF ps = <<>> THEN 0
    ELSE ReduceStock(SubSeq(ps, 1, Len(ps) - 1)) + ps[Len(ps)].quantity

\* fs.filter(f => f.fit_for_processing)
FilterFit(fs) == SelectSeq(fs, LAMBDA f : f.fit_for_processing)

\* Variant: the tenths are cut off instead of rounded.
ToFixed1_Truncating(fit, total) ==
    LET tenths == (1000 * fit) \div total
    IN  NumToText(tenths \div 10) \o <<".">> \o <<Digit[(tenths % 10) + 1]>>

\* (fit / total * 100).toFixed(1): the nearest number of tenths, the larger of
\* two equally near ones, written with exactly one fraction digit.
ToFixed1(fit, total) ==
    LET tenths == (2000 * fit + total) \div (2 * total)
    IN  NumToText(tenths \div 10) \o <<".">> \o <<Digit[(tenths % 10) + 1]>>

\* The pass rate is a string when there are inspections and the number 0
\* when there are none; text is what template interpolation shows of it.
PassRate(fs) ==
    IF Len(fs) > 0
    THEN [type |-> "string", text |-> ToFixed1(Len(FilterFit(fs)), Len(fs))]
    ELSE [type |-> "number", text |-> NumToText(0)]

totalMaterialsValue == ReduceValue(products)
totalRejectedQuantity == ReduceRejected(rejectedItems)
totalMaterialsInStock == ReduceStock(products)
qualityPassRate == PassRate(foodConditions)

\* Variant: the stock card shows the number of products.
Render_StockCardCountsRows ==
    IF loading
    THEN [spinner |-> TRUE]
    ELSE [spinner  |-> FALSE,
          value    |-> totalMaterialsValue,
          stock    |-> Len(products),
          rejected |-> totalRejectedQuantity,
          passRate |-> qualityPassRate.text]

\* The component function (Analytics.tsx:110-116, 217-260): the spinner while
\* loading, otherwise the four cards computed from the loaded record sets.
Render ==
    IF loading
    THEN [spinner |-> TRUE]
    ELSE [spinner  |-> FALSE,
          value    |-> totalMaterialsValue,
          stock    |-> totalMaterialsInStock,
          rejected |-> totalRejectedQuantity,
          passRate |-> qualityPassRate.text]

-----------------------------------------------------------------------------
(* handleExportPDF (Analytics.tsx:118-171).  The document is kept as the   *)
(* calls that build it: the text lines in order and the two tables.        *)
(* toLocaleString/toLocaleDateString render in the viewer's locale, so a   *)
(* line keeps the value it renders; coordinates are not modelled.          *)

FileStem == <<"m","a","t","e","r","i","a","l","-","a","n","a","l","y","t","i","c","s","-">>
PdfExt == <<".","p","d","f">>
CsvExt == <<".","c","s","v">>

PdfTextLines ==
    << [str |-> "Raw Material Analytics Report"],
       [str |-> "Generated: ", date |-> now],
       [str |-> "Total Materials Value: IDR ", number |-> totalMaterialsValue],
       [str |-> "Total Stock: ", text |-> NumToText(totalMaterialsInStock), unit |-> " units"],
       [str |-> "Total Rejected: ", text |-> NumToText(totalRejectedQuantity), unit |-> " units"],
       [str |-> "Quality Pass Rate: ", text |-> qualityPassRate.text, unit |-> "%"],
       [str |-> "Current Inventory"],
       [str |-> "Rejected Materials"] >>

PdfProductsTable ==
    [ head |-> <<"Material", "Category", "Quantity", "Price", "Total Value">>,
      body |-> [i \in 1..Len(products) |->
                  [material |-> products[i].name,
                   category |-> products[i].category,
                   quantity |-> NumToText(products[i].quantity),
                   price    |-> products[i].price,
                   total    |-> products[i].price * products[i].quantity]],
      theme |-> "grid",
      fillColor |-> <<79, 70, 229>> ]

PdfRejectedTable ==
    [ head |-> <<"Date", "Material", "Quantity", "Reason">>,
      body |-> [i \in 1..Len(rejectedItems) |->
                  [date     |-> FormatDate(rejectedItems[i].created_at),
                   material |-> rejectedItems[i].product_name,
                   quantity |-> NumToText(rejectedItems[i].quantity),
                   reason   |-> rejectedItems[i].reason]],
      theme |-> "grid",
      fillColor |-> <<220, 38, 38>> ]

PdfFileName == FileStem \o IsoDate(now) \o PdfExt

handleExportPDF ==
    /\ ~loading
    /\ saved' = [ kind   |-> "pdf",
                  name   |-> PdfFileName,
                  at     |-> now,
                  lines  |-> PdfTextLines,
                  tables |-> <<PdfProductsTable, PdfRejectedTable>> ]
    /\ lastToast' = "PDF Exported"
    /\ UNCHANGED <<products, rejectedItems, foodConditions, loading, view, channels,
                   inflight, lastSettled, now, display, returnsVars, widgetVars>>

-----------------------------------------------------------------------------
(* handleExportExcel (Analytics.tsx:173-215). *)

CsvHeader ==
    << <<"T","y","p","e">>,
       <<"D","a","t","e">>,
       <<"M","a","t","e","r","i","a","l">>,
       <<"C","a","t","e","g","o","r","y","/","R","e","a","s","o","n">>,
       <<"Q","u","a","n","t","i","t","y">>,
       <<"P","r","i","c","e">>,
       <<"T","o","t","a","l"," ","V","a","l","u","e">> >>

CsvProductRow(p) ==
    << <<"P","r","o","d","u","c","t">>,
       FormatDate(p.created_at),
       p.name,
       p.category,
       NumToText(p.quantity),
       NumToText(p.price),
       NumToText(p.price * p.quantity) >>

CsvRejectedRow(r) ==
    << <<"R","e","j","e","c","t","e","d">>,
       FormatDate(r.created_at),
       r.product_name,
       r.reason,
       NumToText(r.quantity),
       <<"-">>,
       <<"-">> >>

csvProducts == [i \in 1..Len(products) |-> CsvProductRow(products[i])]
csvRejected == [i \in 1..Len(rejectedItems) |-> CsvRejectedRow(rejectedItems[i])]

\* Variant: the rejected rows are spread before the product rows.
CsvRows_RejectedFirst == <<CsvHeader>> \o csvRejected \o csvProducts

\* Variant: nothing is written when there is no record.
CsvRows_NoHeaderWhenEmpty ==
    IF products = <<>> /\ rejectedItems = <<>> THEN <<>>
    ELSE <<CsvHeader>> \o csvProducts \o csvRejected

\* [header, ...csvProducts, ...csvRejected]
CsvRows == <<CsvHeader>> \o csvProducts \o csvRejected

\* rows.map(row => row.join(',')).join('\n')
CsvSerialize(rows) ==
    Join([i \in 1..Len(rows) |-> Join(rows[i], <<",">>)], <<"\n">>)

csvContent == CsvSerialize(CsvRows)

CsvFileName == FileStem \o IsoDate(now) \o CsvExt

handleExportExcel ==
    /\ ~loading
    /\ saved' = [ kind    |-> "csv",
                  name    |-> CsvFileName,
                  at      |-> now,
                  type    |-> "text/csv;charset=utf-8;",
                  rows    |-> CsvRows,
                  content |-> csvContent ]
    /\ lastToast' = "Excel Exported"
    /\ UNCHANGED <<products, rejectedItems, foodConditions, loading, view, channels,
                   inflight, lastSettled, now, display, returnsVars, widgetVars>>

-----------------------------------------------------------------------------
(* The clock.  Instants are (day, ms) with day counted from 1970-01-01 UTC. *)

Instants ==
    { [day |-> 21243, ms |-> 43200000],
      [day |-> 21549, ms |-> 86399999],
      [day |-> 21550, ms |-> 0] }

FirstInstant == CHOOSE t \in Instants : \A u \in Instants : u.day >= t.day

Before(s, t) == s.day < t.day \/ (s.day = t.day /\ s.ms < t.ms)

Tick ==
    /\ \E t \in Instants : Before(now, t) /\ now' = t
    /\ UNCHANGED <<products, rejectedItems, foodConditions, loading, view, channels,
                   inflight, lastSettled, saved, lastToast, display, returnsVars, widgetVars>>

-----------------------------------------------------------------------------
(* The report specification: the view has loaded some record sets and the  *)
(* user exports them.                                                      *)

NotSettled == [outcome |-> None]

EmptyForm == [product_name |-> <<>>, quantity |-> <<>>, reason |-> <<>>]

\* The Returns page as constructed (Returns.tsx:24-31), over an empty table.
ReturnsConstructed ==
    /\ returns = <<>>
    /\ returnsLoading = TRUE
    /\ dialogOpen = FALSE
    /\ formData = EmptyForm
    /\ returnsView = "created"
    /\ calls = <<>>
    /\ returnsTable = <<>>
NoFile == [kind |-> None]

\* ProfileMenu before its first render, in a browser with nothing saved.
MenuConstructed ==
    /\ theme = "light"
    /\ userEmail = <<>>
    /\ menuView = "created"
    /\ emailCalls = <<>>
    /\ localTheme = None
    /\ darkClass = FALSE
    /\ prefersDark = FALSE

\* The value of a number field of the form: a number, or NaN for a cleared
\* input read with valueAsNumber (ProductDialog.tsx:130, 139).
Number(n) == [nan |-> FALSE, value |-> n]

NaN == [nan |-> TRUE]

\* The prop product when the parent passes null or nothing (ProductDialog.tsx:27).
NoProduct == [id |-> None]

\* The default values given to useForm (ProductDialog.tsx:35-41).
EmptyProduct ==
    [name |-> <<>>, color |-> "", category |-> "", price |-> Number(0), quantity |-> Number(1)]

\* ProductDialog before its first render, closed and with no product.
ProductDialogConstructed ==
    /\ openProp = FALSE
    /\ product = NoProduct
    /\ formValues = EmptyProduct
    /\ defaultValues = EmptyProduct
    /\ emitted = <<>>

ReportInit ==
    /\ products \in ProductLists
    /\ rejectedItems \in RejectedLists
    /\ foodConditions \in ConditionLists
    /\ loading = FALSE
    /\ view = "mounted"
    /\ channels = {"products", "rejected_items"}
    /\ inflight = <<>>
    /\ lastSettled = NotSettled
    /\ now \in Instants
    /\ saved = NoFile
    /\ lastToast = None
    /\ display = Render
    /\ ReturnsConstructed
    /\ MenuConstructed
    /\ ProductDialogConstructed

ReportNext == handleExportPDF \/ handleExportExcel \/ Tick

ReportSpec == ReportInit /\ [][ReportNext]_vars

-----------------------------------------------------------------------------
(* The fetch cycle (Analytics.tsx:45-108).  A query answers {data, error}: *)
(* rows, or null data without an error, or an error.                       *)

Rows(l) == [error |-> FALSE, null |-> FALSE, data |-> l]
NullData == [error |-> FALSE, null |-> TRUE, data |-> <<>>]
QueryError == [error |-> TRUE, null |-> TRUE, data |-> <<>>]

FullList(S) == CHOOSE l \in S : \A k \in S : Len(k) <= Len(l)

\* What each query may answer: an error, the table's rows, or no rows.  No
\* rows arrive as null data for products, as an empty list for rejected_items
\* and as either for food_conditions.
ProductAnswers == {QueryError, NullData, Rows(FullList(ProductLists))}
RejectedAnswers == {QueryError, Rows(<<>>), Rows(FullList(RejectedLists))}
ConditionAnswers == {QueryError, NullData, Rows(<<>>), Rows(FullList(ConditionLists))}

Tables == <<"products", "rejected_items", "food_conditions">>

Answers(k) ==
    IF k = 1 THEN ProductAnswers ELSE IF k = 2 THEN RejectedAnswers ELSE ConditionAnswers

\* data || []
OrEmpty(r) == IF r.null THEN <<>> ELSE r.data

\* A call of fetchAllData that has sent its first query.  got holds the
\* answers received so far; overtaken records that a call made after this one
\* has already settled through the setters.
NewCycle == [got |-> <<>>, overtaken |-> FALSE]

\* Variant: a call made while another is in flight is dropped.
StartFetch_Coalescing ==
    IF inflight # <<>> THEN inflight ELSE Append(inflight, NewCycle)

\* fetchAllData up to its first await: the products query is sent.
StartFetch == Append(inflight, NewCycle)

RemoveAt(q, i) == SubSeq(q, 1, i - 1) \o SubSeq(q, i + 1, Len(q))

\* Cycle i settles through the setters: the calls made before it and still
\* in flight have been overtaken.
Overtake(q, i) ==
    [j \in 1..Len(q) |-> IF j < i THEN [q[j] EXCEPT !.overtaken = TRUE] ELSE q[j]]

\* Variant: a third channel listens to food_conditions.
Mount_SubscribesAll ==
    /\ view = "created"
    /\ view' = "mounted"
    /\ inflight' = StartFetch
    /\ channels' = {"products", "rejected_items", "food_conditions"}
    /\ UNCHANGED <<products, rejectedItems, foodConditions, loading, lastSettled,
                   now, saved, lastToast, display, returnsVars, widgetVars>>

\* useEffect(..., []): the first fetch and the two channel subscriptions.
Mount ==
    /\ view = "created"
    /\ view' = "mounted"
    /\ inflight' = StartFetch
    /\ channels' = {"products", "rejected_items"}
    /\ UNCHANGED <<products, rejectedItems, foodConditions, loading, lastSettled,
                   now, saved, lastToast, display, returnsVars, widgetVars>>

\* A postgres_changes event on a table: the channel callback, if there is one.
Notify(table) ==
    /\ table \in channels
    /\ Len(inflight) < MaxInflight
    /\ inflight' = StartFetch
    /\ UNCHANGED <<products, rejectedItems, foodConditions, loading, view, channels,
                   lastSettled, now, saved, lastToast, display, returnsVars, widgetVars>>

\* Variant: the cleanup removes the products channel only.
Unmount_KeepsRejectedChannel ==
    /\ view = "mounted"
    /\ view' = "unmounted"
    /\ channels' = channels \ {"products"}
    /\ UNCHANGED <<products, rejectedItems, foodConditions, loading, inflight,
                   lastSettled, now, saved, lastToast, display, returnsVars, widgetVars>>

\* The effect's cleanup: both channels are removed.
Unmount ==
    /\ view = "mounted"
    /\ view' = "unmounted"
    /\ channels' = {}
    /\ UNCHANGED <<products, rejectedItems, foodConditions, loading, inflight,
                   lastSettled, now, saved, lastToast, display, returnsVars, widgetVars>>

\* Variant: the catch branch still calls the setters with what was received.
Resume_AppliesPartial(i, r) ==
    LET got == Append(inflight[i].got, r)
    IN  IF r.error
        THEN /\ lastSettled' = [outcome |-> "error", table |-> Tables[Len(got)],
                                 thrown |-> r, logged |-> TRUE]
             /\ loading' = FALSE
             /\ inflight' = RemoveAt(inflight, i)
             /\ products' = (IF Len(got) > 1 THEN OrEmpty(got[1]) ELSE products)
             /\ rejectedItems' = (IF Len(got) > 2 THEN OrEmpty(got[2]) ELSE rejectedItems)
             /\ UNCHANGED foodConditions
             /\ display' = Render'
        ELSE IF Len(got) < 3
        THEN /\ inflight' = [inflight EXCEPT ![i].got = got]
             /\ UNCHANGED <<products, rejectedItems, foodConditions, loading, lastSettled,
                            display>>
        ELSE /\ products' = OrEmpty(got[1])
             /\ rejectedItems' = OrEmpty(got[2])
             /\ foodConditions' = OrEmpty(got[3])
             /\ lastSettled' = [outcome |-> "applied", received |-> got, logged |-> FALSE,
                                 stale |-> inflight[i].overtaken,
                                 afterTeardown |-> view = "unmounted"]
             /\ loading' = FALSE
             /\ inflight' = RemoveAt(Overtake(inflight, i), i)
             /\ display' = Render'

\* Variant: each setter is called as soon as its query has answered.
Resume_SetsAsAnswered(i, r) ==
    LET got == Append(inflight[i].got, r)
    IN  IF r.error
        THEN /\ lastSettled' = [outcome |-> "error", table |-> Tables[Len(got)],
                                 thrown |-> r, logged |-> TRUE]
             /\ loading' = FALSE
             /\ inflight' = RemoveAt(inflight, i)
             /\ UNCHANGED <<products, rejectedItems, foodConditions>>
             /\ display' = Render'
        ELSE IF Len(got) < 3
        THEN /\ inflight' = [inflight EXCEPT ![i].got = got]
             /\ products' = (IF Len(got) = 1 THEN OrEmpty(r) ELSE products)
             /\ rejectedItems' = (IF Len(got) = 2 THEN OrEmpty(r) ELSE rejectedItems)
             /\ UNCHANGED <<foodConditions, loading, lastSettled>>
             /\ display' = Render'
        ELSE /\ foodConditions' = OrEmpty(got[3])
             /\ UNCHANGED <<products, rejectedItems>>
             /\ lastSettled' = [outcome |-> "applied", received |-> got, logged |-> FALSE,
                                 stale |-> inflight[i].overtaken,
                                 afterTeardown |-> view = "unmounted"]
             /\ loading' = FALSE
             /\ inflight' = RemoveAt(Overtake(inflight, i), i)
             /\ display' = Render'

\* Variant: a cycle overtaken by a later call drops its answers.
Resume_LatestCallOnly(i, r) ==
    LET got == Append(inflight[i].got, r)
    IN  IF r.error
        THEN /\ lastSettled' = [outcome |-> "error", table |-> Tables[Len(got)],
                                 thrown |-> r, logged |-> TRUE]
             /\ loading' = FALSE
             /\ inflight' = RemoveAt(inflight, i)
             /\ UNCHANGED <<products, rejectedItems, foodConditions>>
             /\ display' = Render'
        ELSE IF Len(got) < 3
        THEN /\ inflight' = [inflight EXCEPT ![i].got = got]
             /\ UNCHANGED <<products, rejectedItems, foodConditions, loading, lastSettled,
                            display>>
        ELSE IF inflight[i].overtaken
        THEN /\ inflight' = RemoveAt(inflight, i)
             /\ UNCHANGED <<products, rejectedItems, foodConditions, loading, lastSettled,
                            display>>
        ELSE /\ products' = OrEmpty(got[1])
             /\ rejectedItems' = OrEmpty(got[2])
             /\ foodConditions' = OrEmpty(got[3])
             /\ lastSettled' = [outcome |-> "applied", received |-> got, logged |-> FALSE,
                                 stale |-> inflight[i].overtaken,
                                 afterTeardown |-> view = "unmounted"]
             /\ loading' = FALSE
             /\ inflight' = RemoveAt(Overtake(inflight, i), i)
             /\ display' = Render'

\* Variant: setLoading(false) closes the try block instead of sitting in finally.
Resume_LoadingKeptOnError(i, r) ==
    LET got == Append(inflight[i].got, r)
    IN  IF r.error
        THEN /\ lastSettled' = [outcome |-> "error", table |-> Tables[Len(got)],
                                 thrown |-> r, logged |-> TRUE]
             /\ inflight' = RemoveAt(inflight, i)
             /\ UNCHANGED <<products, rejectedItems, foodConditions, loading, display>>
        ELSE IF Len(got) < 3
        THEN /\ inflight' = [inflight EXCEPT ![i].got = got]
             /\ UNCHANGED <<products, rejectedItems, foodConditions, loading, lastSettled,
                            display>>
        ELSE /\ products' = OrEmpty(got[1])
             /\ rejectedItems' = OrEmpty(got[2])
             /\ foodConditions' = OrEmpty(got[3])
             /\ lastSettled' = [outcome |-> "applied", received |-> got, logged |-> FALSE,
                                 stale |-> inflight[i].overtaken,
                                 afterTeardown |-> view = "unmounted"]
             /\ loading' = FALSE
             /\ inflight' = RemoveAt(Overtake(inflight, i), i)
             /\ display' = Render'

\* Variant: a cycle that settles after the cleanup drops its answers.
Resume_DroppedAfterTeardown(i, r) ==
    LET got == Append(inflight[i].got, r)
    IN  IF r.error
        THEN /\ lastSettled' = [outcome |-> "error", table |-> Tables[Len(got)],
                                 thrown |-> r, logged |-> TRUE]
             /\ loading' = FALSE
             /\ inflight' = RemoveAt(inflight, i)
             /\ UNCHANGED <<products, rejectedItems, foodConditions>>
             /\ display' = Render'
        ELSE IF Len(got) < 3
        THEN /\ inflight' = [inflight EXCEPT ![i].got = got]
             /\ UNCHANGED <<products, rejectedItems, foodConditions, loading, lastSettled,
                            display>>
        ELSE IF view = "unmounted"
        THEN /\ inflight' = RemoveAt(inflight, i)
             /\ UNCHANGED <<products, rejectedItems, foodConditions, loading, lastSettled,
                            display>>
        ELSE /\ products' = OrEmpty(got[1])
             /\ rejectedItems' = OrEmpty(got[2])
             /\ foodConditions' = OrEmpty(got[3])
             /\ lastSettled' = [outcome |-> "applied", received |-> got, logged |-> FALSE,
                                 stale |-> inflight[i].overtaken,
                                 afterTeardown |-> view = "unmounted"]
             /\ loading' = FALSE
             /\ inflight' = RemoveAt(Overtake(inflight, i), i)
             /\ display' = Render'

\* Variant: null data leaves the loaded set in place.
Resume_NullKeepsLoaded(i, r) ==
    LET got == Append(inflight[i].got, r)
    IN  IF r.error
        THEN \* throw; catch: console.error; finally: setLoading(false)
             /\ lastSettled' = [outcome |-> "error", table |-> Tables[Len(got)],
                                 thrown |-> r, logged |-> TRUE]
             /\ loading' = FALSE
             /\ inflight' = RemoveAt(inflight, i)
             /\ UNCHANGED <<products, rejectedItems, foodConditions>>
             /\ display' = Render'
        ELSE IF Len(got) < 3
        THEN \* the next query is sent
             /\ inflight' = [inflight EXCEPT ![i].got = got]
             /\ UNCHANGED <<products, rejectedItems, foodConditions, loading, lastSettled,
                            display>>
        ELSE \* the three setters; finally: setLoading(false)
             /\ products' = (IF got[1].null THEN products ELSE got[1].data)
             /\ rejectedItems' = (IF got[2].null THEN rejectedItems ELSE got[2].data)
             /\ foodConditions' = (IF got[3].null THEN foodConditions ELSE got[3].data)
             /\ lastSettled' = [outcome |-> "applied", received |-> got, logged |-> FALSE,
                                 stale |-> inflight[i].overtaken,
                                 afterTeardown |-> view = "unmounted"]
             /\ loading' = FALSE
             /\ inflight' = RemoveAt(Overtake(inflight, i), i)
             /\ display' = Render'

\* An await of cycle i resumes with answer r to its pending query.
Resume(i, r) ==
    LET got == Append(inflight[i].got, r)
    IN  IF r.error
        THEN \* throw; catch: console.error; finally: setLoading(false)
             /\ lastSettled' = [outcome |-> "error", table |-> Tables[Len(got)],
                                 thrown |-> r, logged |-> TRUE]
             /\ loading' = FALSE
             /\ inflight' = RemoveAt(inflight, i)
             /\ UNCHANGED <<products, rejectedItems, foodConditions>>
             /\ display' = Render'
        ELSE IF Len(got) < 3
        THEN \* the next query is sent
             /\ inflight' = [inflight EXCEPT ![i].got = got]
             /\ UNCHANGED <<products, rejectedItems, foodConditions, loading, lastSettled,
                            display>>
        ELSE \* the three setters; finally: setLoading(false)
             /\ products' = OrEmpty(got[1])
             /\ rejectedItems' = OrEmpty(got[2])
             /\ foodConditions' = OrEmpty(got[3])
             /\ lastSettled' = [outcome |-> "applied", received |-> got, logged |-> FALSE,
                                 stale |-> inflight[i].overtaken,
                                 afterTeardown |-> view = "unmounted"]
             /\ loading' = FALSE
             /\ inflight' = RemoveAt(Overtake(inflight, i), i)
             /\ display' = Render'

Respond ==
    /\ \E i \in 1..Len(inflight) :
         \E r \in Answers(Len(inflight[i].got) + 1) : Resume(i, r)
    /\ UNCHANGED <<view, channels, now, saved, lastToast, returnsVars, widgetVars>>

Init ==
    /\ products = <<>>
    /\ rejectedItems = <<>>
    /\ foodConditions = <<>>
    /\ loading = TRUE
    /\ view = "created"
    /\ channels = {}
    /\ inflight = <<>>
    /\ lastSettled = NotSettled
    /\ now = FirstInstant
    /\ saved = NoFile
    /\ lastToast = None
    /\ display = Render
    /\ ReturnsConstructed
    /\ MenuConstructed
    /\ ProductDialogConstructed

Next ==
    \/ Mount
    \/ \E t \in {"products", "rejected_items", "food_conditions"} : Notify(t)
    \/ Respond
    \/ Unmount

Spec == Init /\ [][Next]_vars

-----------------------------------------------------------------------------
(* Reference definitions the properties are stated with. *)

RECURSIVE SumOver(_, _)
\* The sum of f[x] over the finite set S.
SumOver(S, f) ==
    IF S = {} THEN 0
    ELSE LET x == CHOOSE y \in S : TRUE
         IN  f[x] + SumOver(S \ {x}, f)

\* The list l taken in the order given by the permutation f of its indices.
Reordered(l, f) == [i \in 1..Len(l) |-> l[f[i]]]

Reorderings(l) == { Reordered(l, f) : f \in Permutations(1..Len(l)) }

DigitValue(c) == CHOOSE d \in 0..9 : Digit[d + 1] = c

IsDigits(t) == Len(t) > 0 /\ \A i \in 1..Len(t) : \E d \in 0..9 : Digit[d + 1] = t[i]

RECURSIVE TextToNum(_)
TextToNum(t) ==
    IF Len(t) = 0 THEN 0
    ELSE 10 * TextToNum(SubSeq(t, 1, Len(t) - 1)) + DigitValue(t[Len(t)])

-----------------------------------------------------------------------------
(* C1: the total materials value is the sum over the loaded products of    *)
(* price times quantity; one product of price 12000 and quantity 10 gives  *)
(* 120000.                                                                 *)

C1_TotalValueIsSum ==
    /\ totalMaterialsValue
         = SumOver(1..Len(products), [i \in 1..Len(products) |-> products[i].price * products[i].quantity])
    /\ (Len(products) = 1 /\ products[1].price = 12000 /\ products[1].quantity = 10)
         => totalMaterialsValue = 120000

C1_Witness ==
    /\ Len(products) = 2
    /\ products[1].name # products[2].name
    /\ totalMaterialsValue = 128997

(* C2: with inspections loaded the pass rate is fit / all * 100 rounded to *)
(* one decimal place, shown with one fraction digit (2 of 4 is "50.0");    *)
(* with none loaded it is the number 0.                                    *)

C2_PassRateRounded ==
    LET n == Len(foodConditions)
        f == Cardinality({i \in 1..n : foodConditions[i].fit_for_processing})
        t == qualityPassRate.text
        whole == SubSeq(t, 1, Len(t) - 2)
        tenths == 10 * TextToNum(whole) + DigitValue(t[Len(t)])
    IN  /\ n = 0 => qualityPassRate.type = "number" /\ t = <<"0">>
        /\ n > 0 =>
             /\ qualityPassRate.type = "string"
             /\ Len(t) >= 3 /\ t[Len(t) - 1] = "." /\ IsDigits(whole) /\ IsDigits(<<t[Len(t)]>>)
             /\ (Len(whole) > 1 => whole[1] # "0")
             /\ 2 * (tenths * n - 1000 * f) <= n
             /\ 2 * (1000 * f - tenths * n) <= n
        /\ (n = 4 /\ f = 2) => t = <<"5","0",".","0">>

C2_Witness ==
    /\ Len(foodConditions) = 3
    /\ Len(FilterFit(foodConditions)) = 2
    /\ qualityPassRate.text = <<"6","6",".","7">>

(* C3: total stock is the sum of quantity over the loaded products and     *)
(* total rejected is the sum of quantity over the loaded rejected items;   *)
(* neither reads the other record set.                                     *)

C3_StockAndRejectedSums ==
    /\ totalMaterialsInStock = SumOver(1..Len(products), [i \in 1..Len(products) |-> products[i].quantity])
    /\ totalRejectedQuantity
         = SumOver(1..Len(rejectedItems),
                   [i \in 1..Len(rejectedItems) |-> rejectedItems[i].quantity])

C3_Witness ==
    /\ Len(products) = 2 /\ Len(rejectedItems) = 1
    /\ totalMaterialsInStock = 13
    /\ totalRejectedQuantity = 5

(* C4: every aggregate is the same for every reordering of the loaded      *)
(* record sets.                                                            *)

C4_OrderInvariant ==
    /\ \A ps \in Reorderings(products) :
         /\ ReduceValue(ps) = totalMaterialsValue
         /\ ReduceStock(ps) = totalMaterialsInStock
    /\ \A rs \in Reorderings(rejectedItems) : ReduceRejected(rs) = totalRejectedQuantity
    /\ \A fs \in Reorderings(foodConditions) : PassRate(fs) = qualityPassRate

C4_Witness ==
    /\ Len(products) = 2 /\ products[1] # products[2]
    /\ Len(rejectedItems) = 2 /\ rejectedItems[1] # rejectedItems[2]
    /\ Len(foodConditions) = 3
    /\ foodConditions[1].fit_for_processing /\ ~foodConditions[3].fit_for_processing

-----------------------------------------------------------------------------
(* Reading a CSV text back. *)

FirstIndex(t, c) == CHOOSE i \in 1..Len(t) : t[i] = c /\ \A j \in 1..(i - 1) : t[j] # c

Contains(t, c) == \E i \in 1..Len(t) : t[i] = c

RECURSIVE Split(_, _)
\* String.prototype.split on a one-character separator.
Split(t, c) ==
    IF ~Contains(t, c) THEN <<t>>
    ELSE LET i == FirstIndex(t, c)
         IN  <<SubSeq(t, 1, i - 1)>> \o Split(SubSeq(t, i + 1, Len(t)), c)

RECURSIVE ReadFields(_, _, _, _)
\* The fields of one CSV line as a quote-aware reader sees them: a field
\* that opens with a double quote runs to the closing one, a doubled quote
\* inside standing for one quote character.
ReadFields(t, i, cur, quoted) ==
    IF i > Len(t) THEN <<cur>>
    ELSE IF quoted
         THEN IF t[i] = "\""
              THEN IF i < Len(t) /\ t[i + 1] = "\""
                   THEN ReadFields(t, i + 2, cur \o <<"\"">>, TRUE)
                   ELSE ReadFields(t, i + 1, cur, FALSE)
              ELSE ReadFields(t, i + 1, cur \o <<t[i]>>, TRUE)
         ELSE IF t[i] = "," THEN <<cur>> \o ReadFields(t, i + 1, <<>>, FALSE)
              ELSE IF t[i] = "\"" /\ cur = <<>> THEN ReadFields(t, i + 1, cur, TRUE)
              ELSE ReadFields(t, i + 1, cur \o <<t[i]>>, FALSE)

HeaderLine ==
    <<"T","y","p","e",",","D","a","t","e",",","M","a","t","e","r","i","a","l",",",
      "C","a","t","e","g","o","r","y","/","R","e","a","s","o","n",",",
      "Q","u","a","n","t","i","t","y",",","P","r","i","c","e",",",
      "T","o","t","a","l"," ","V","a","l","u","e">>

StartsWith(t, prefix) == Len(t) >= Len(prefix) /\ SubSeq(t, 1, Len(prefix)) = prefix

CsvSaved == saved.kind = "csv"
PdfSaved == saved.kind = "pdf"

(* C5: a fetch cycle whose three queries each answer without an error and  *)
(* with null or empty data loads three empty record sets: all four         *)
(* aggregates are zero and no error is taken.                              *)

AbsentOrEmpty(r) == ~r.error /\ (r.null \/ r.data = <<>>)

SettledWithoutRows ==
    /\ lastSettled.outcome = "applied"
    /\ \A k \in 1..3 : AbsentOrEmpty(lastSettled.received[k])

C5_AbsentIsEmpty ==
    /\ lastSettled.outcome = "error" => lastSettled.thrown.error
    /\ SettledWithoutRows =>
         /\ ~lastSettled.logged
         /\ ~loading
         /\ products = <<>> /\ rejectedItems = <<>> /\ foodConditions = <<>>
         /\ totalMaterialsValue = 0
         /\ totalMaterialsInStock = 0
         /\ totalRejectedQuantity = 0
         /\ qualityPassRate.type = "number" /\ qualityPassRate.text = <<"0">>

C5_Witness ==
    /\ SettledWithoutRows
    /\ lastSettled.received[1].null
    /\ ~lastSettled.received[2].null
    /\ lastSettled.received[3].null
    /\ Len(inflight) > 0

(* C6: the CSV is the header row, then one row per loaded product tagged   *)
(* Product, then one row per loaded rejected item tagged Rejected, each    *)
(* group in the order of the loaded list, nothing dropped, repeated or     *)
(* moved.  (The loaded values hold no line break.)                         *)

C7_CommaFieldsQuoted ==
    CsvSaved =>
      LET lines == Split(saved.content, "\n")
      IN  \A i \in 1..Len(saved.rows) :
            (\E k \in 1..Len(saved.rows[i]) : Contains(saved.rows[i][k], ","))
              => /\ i <= Len(lines)
                 /\ ReadFields(lines[i], 1, <<>>, FALSE) = saved.rows[i]

(* C8: when no field value of the loaded records holds a comma, every line *)
(* of the CSV splits on the comma into exactly 7 fields and there are      *)
(* 1 + products + rejected items lines.                                    *)

CommaFreeRecords ==
    /\ \A i \in 1..Len(products) :
         ~Contains(products[i].name, ",") /\ ~Contains(products[i].category, ",")
    /\ \A j \in 1..Len(rejectedItems) :
         /\ ~Contains(rejectedItems[j].product_name, ",")
         /\ ~Contains(rejectedItems[j].reason, ",")

C8_SevenFieldsPerLine ==
    (CsvSaved /\ CommaFreeRecords) =>
      LET lines == Split(saved.content, "\n")
      IN  /\ Len(lines) = 1 + Len(products) + Len(rejectedItems)
          /\ \A i \in 1..Len(lines) : Len(Split(lines[i], ",")) = 7

(* C9: with no record loaded in any table both exports still run and give  *)
(* a non-empty document: the CSV holds the header row, the PDF the title,  *)
(* the summary lines and both table headers.                               *)

NoRecords == products = <<>> /\ rejectedItems = <<>> /\ foodConditions = <<>>

C9_EmptyExports ==
    (NoRecords /\ ~loading) =>
      /\ ENABLED handleExportPDF
      /\ ENABLED handleExportExcel
      /\ CsvSaved =>
           /\ saved.content = HeaderLine
           /\ lastToast = "Excel Exported"
      /\ PdfSaved =>
           /\ Len(saved.lines) = 8
           /\ saved.lines[1].str = "Raw Material Analytics Report"
           /\ saved.lines[2].str = "Generated: "
           /\ saved.lines[3].str = "Total Materials Value: IDR " /\ saved.lines[3].number = 0
           /\ saved.lines[4].str = "Total Stock: " /\ saved.lines[4].text = <<"0">>
           /\ saved.lines[5].str = "Total Rejected: " /\ saved.lines[5].text = <<"0">>
           /\ saved.lines[6].str = "Quality Pass Rate: " /\ saved.lines[6].text = <<"0">>
           /\ Len(saved.tables) = 2
           /\ saved.tables[1].head = <<"Material", "Category", "Quantity", "Price", "Total Value">>
           /\ saved.tables[1].body = <<>>
           /\ saved.tables[2].head = <<"Date", "Material", "Quantity", "Reason">>
           /\ saved.tables[2].body = <<>>
           /\ lastToast = "PDF Exported"

C9_Witness == NoRecords /\ PdfSaved /\ Len(saved.name) > 0

(* C10: an export is saved as material-analytics-YYYY-MM-DD with the       *)
(* extension of its kind, the date being the (UTC) calendar date of the    *)
(* instant of the export; the date part depends on that instant only, so   *)
(* a PDF and a CSV exported at the same instant carry the same one.        *)

IsLeapYear(y) == (y % 4 = 0 /\ y % 100 # 0) \/ y % 400 = 0

DaysInMonth(y, m) ==
    IF m = 2 THEN (IF IsLeapYear(y) THEN 29 ELSE 28)
    ELSE IF m \in {4, 6, 9, 11} THEN 30 ELSE 31

LeapYearsThrough(y) == y \div 4 - y \div 100 + y \div 400

\* The day number of a calendar date, counted year by year and month by month.
DaysFromCivil(y, m, d) ==
    365 * (y - 1970) + (LeapYearsThrough(y - 1) - LeapYearsThrough(1969))
    + SumOver(1..(m - 1), [k \in 1..(m - 1) |-> DaysInMonth(y, k)]) + (d - 1)

C10_FileNameIsIsoDate ==
    (CsvSaved \/ PdfSaved) =>
      LET name == saved.name
          stem == Len(FileStem)
          date == SubSeq(name, stem + 1, stem + 10)
          y == SubSeq(date, 1, 4)
          m == SubSeq(date, 6, 7)
          d == SubSeq(date, 9, 10)
      IN  /\ Len(name) = stem + 10 + 4
          /\ SubSeq(name, 1, stem) = FileStem
          /\ SubSeq(name, stem + 11, stem + 14) = (IF PdfSaved THEN PdfExt ELSE CsvExt)
          /\ IsDigits(y) /\ IsDigits(m) /\ IsDigits(d)
          /\ date[5] = "-" /\ date[8] = "-"
          /\ TextToNum(m) \in 1..12
          /\ TextToNum(d) \in 1..DaysInMonth(TextToNum(y), TextToNum(m))
          /\ DaysFromCivil(TextToNum(y), TextToNum(m), TextToNum(d)) = saved.at.day

C10_Witness ==
    /\ PdfSaved
    /\ saved.at.day = 21243
    /\ SubSeq(saved.name, Len(FileStem) + 1, Len(FileStem) + 10)
         = <<"2","0","2","8","-","0","2","-","2","9">>

-----------------------------------------------------------------------------
(* The Returns page (Returns.tsx:24-98) and the table behind it.  A return *)
(* is created pending by this page; who approves or rejects it is outside  *)
(* the page and acts on the table directly.                                *)

User == "user-1"

\* supabase.auth.getUser(): no user, or the signed-in user.
AuthAnswers == {None, User}

Rusak == <<"R","u","s","a","k">>

\* What the three inputs may hold.
FieldValues ==
    [ product_name |-> {<<>>, Beras},
      quantity     |-> {<<>>, <<"5">>},
      reason       |-> {<<>>, Rusak} ]

RECURSIVE TrimStart(_)
TrimStart(t) == IF t # <<>> /\ t[1] = " " THEN TrimStart(Tail(t)) ELSE t

RECURSIVE DigitPrefix(_)
DigitPrefix(t) ==
    IF t = <<>> \/ ~IsDigits(<<t[1]>>) THEN <<>> ELSE <<t[1]>> \o DigitPrefix(Tail(t))

\* parseInt(text) with no radix: leading blanks, a sign, then the longest run
\* of decimal digits; NaN when there is none.  (A 0x prefix cannot be typed
\* into a number input.)
ParseInt(t) ==
    LET s == TrimStart(t)
        signed == s # <<>> /\ s[1] \in {"+", "-"}
        ds == DigitPrefix(IF signed THEN Tail(s) ELSE s)
    IN  IF ds = <<>> THEN [nan |-> TRUE]
        ELSE [nan |-> FALSE,
              value |-> IF signed /\ s[1] = "-" THEN 0 - TextToNum(ds) ELSE TextToNum(ds)]

\* Date.now() as the template literal prints it: milliseconds since the epoch.
DateNow == NumToText(now.day * 86400 + now.ms \div 1000) \o Pad(NumToText(now.ms % 1000), 3)

ReturnPrefix == <<"R","E","T","-">>

\* Variant: the number is built from the date of the day.
ReturnNumber_FromDate == ReturnPrefix \o IsoDate(now)

\* `RET-${Date.now()}`
ReturnNumber == ReturnPrefix \o DateNow

\* Variant: the row is inserted already approved.
NewReturn_Approved(form, user) ==
    [ return_number |-> ReturnNumber,
      product_name  |-> form.product_name,
      quantity      |-> ParseInt(form.quantity),
      reason        |-> form.reason,
      user_id       |-> user,
      status        |-> "approved" ]

\* The object handed to insert (Returns.tsx:71-78).
NewReturn(form, user) ==
    [ return_number |-> ReturnNumber,
      product_name  |-> form.product_name,
      quantity      |-> ParseInt(form.quantity),
      reason        |-> form.reason,
      user_id       |-> user,
      status        |-> "pending" ]

\* fetchReturns up to its first await.
fetchReturns == [fn |-> "fetchReturns", at |-> "getUser"]

\* useEffect(() => { fetchReturns(); }, [])
ReturnsMount ==
    /\ returnsView = "created"
    /\ returnsView' = "mounted"
    /\ calls' = Append(calls, fetchReturns)
    /\ UNCHANGED <<returns, returnsLoading, dialogOpen, formData, returnsTable,
                   now, lastToast, analyticsVars, widgetVars>>

\* <Dialog open={dialogOpen} onOpenChange={setDialogOpen}>
setDialogOpen(open) ==
    /\ returnsView = "mounted"
    /\ dialogOpen # open
    /\ dialogOpen' = open
    /\ UNCHANGED <<returns, returnsLoading, formData, returnsView, calls, returnsTable,
                   now, lastToast, analyticsVars, widgetVars>>

\* onChange of an input: setFormData({ ...formData, [field]: value })
handleChange(field, value) ==
    /\ dialogOpen
    /\ formData[field] # value
    /\ formData' = [formData EXCEPT ![field] = value]
    /\ UNCHANGED <<returns, returnsLoading, dialogOpen, returnsView, calls, returnsTable,
                   now, lastToast, analyticsVars, widgetVars>>

\* The three inputs are required: the browser submits the form only when
\* each holds a value.
Submittable(form) ==
    form.product_name # <<>> /\ form.quantity # <<>> /\ form.reason # <<>>

\* handleSubmit up to its first await, with the form as the handler sees it.
handleSubmit ==
    /\ dialogOpen
    /\ Submittable(formData)
    /\ Len(calls) < MaxInflight
    /\ calls' = Append(calls, [fn |-> "handleSubmit", at |-> "getUser", form |-> formData])
    /\ UNCHANGED <<returns, returnsLoading, dialogOpen, formData, returnsView,
                   returnsTable, now, lastToast, analyticsVars, widgetVars>>

\* What the await of call c may resume with.  An insert is answered with an
\* error or with no error; the table takes at most MaxReturns rows.
CallAnswers(c) ==
    IF c.at = "getUser" THEN AuthAnswers
    ELSE IF c.at = "select" THEN {QueryError, NullData, Rows(returnsTable)}
    ELSE IF Len(returnsTable) < MaxReturns THEN {QueryError, Rows(<<>>)}
    ELSE {QueryError}

\* fetchReturns (Returns.tsx:37-59) after an await.
ResumeFetchReturns(i, a) ==
    IF calls[i].at = "getUser"
    THEN IF a = None
         THEN \* return; finally: setLoading(false)
              /\ returnsLoading' = FALSE
              /\ calls' = RemoveAt(calls, i)
              /\ UNCHANGED <<returns, lastToast>>
         ELSE \* the select is sent
              /\ calls' = [calls EXCEPT ![i].at = "select"]
              /\ UNCHANGED <<returns, returnsLoading, lastToast>>
    ELSE IF a.error
    THEN \* throw; catch: console.error and toast; finally: setLoading(false)
         /\ lastToast' = "Gagal memuat pengembalian"
         /\ returnsLoading' = FALSE
         /\ calls' = RemoveAt(calls, i)
         /\ UNCHANGED returns
    ELSE \* setReturns(data || []); finally: setLoading(false)
         /\ returns' = OrEmpty(a)
         /\ returnsLoading' = FALSE
         /\ calls' = RemoveAt(calls, i)
         /\ UNCHANGED lastToast

\* Variant: the form is reset in a finally block, whatever the insert answers.
ResumeHandleSubmit_ResetsOnFailure(i, a) ==
    IF calls[i].at = "getUser"
    THEN IF a = None
         THEN /\ calls' = RemoveAt(calls, i)
              /\ UNCHANGED <<returnsTable, dialogOpen, formData, lastToast>>
         ELSE /\ calls' = [calls EXCEPT ![i] = [fn |-> "handleSubmit", at |-> "insert",
                                                 row |-> NewReturn(calls[i].form, a)]]
              /\ UNCHANGED <<returnsTable, dialogOpen, formData, lastToast>>
    ELSE IF a.error
    THEN /\ lastToast' = "Gagal membuat pengembalian"
         /\ calls' = RemoveAt(calls, i)
         /\ formData' = EmptyForm
         /\ UNCHANGED <<returnsTable, dialogOpen>>
    ELSE /\ returnsTable' = <<calls[i].row>> \o returnsTable
         /\ lastToast' = "Pengembalian Dibuat"
         /\ dialogOpen' = FALSE
         /\ formData' = EmptyForm
         /\ calls' = Append(RemoveAt(calls, i), fetchReturns)

\* Variant: a missing user is reported like a failed insert.
ResumeHandleSubmit_ToastsWithoutUser(i, a) ==
    IF calls[i].at = "getUser"
    THEN IF a = None
         THEN /\ calls' = RemoveAt(calls, i)
              /\ lastToast' = "Gagal membuat pengembalian"
              /\ UNCHANGED <<returnsTable, dialogOpen, formData>>
         ELSE /\ calls' = [calls EXCEPT ![i] = [fn |-> "handleSubmit", at |-> "insert",
                                                 row |-> NewReturn(calls[i].form, a)]]
              /\ UNCHANGED <<returnsTable, dialogOpen, formData, lastToast>>
    ELSE IF a.error
    THEN /\ lastToast' = "Gagal membuat pengembalian"
         /\ calls' = RemoveAt(calls, i)
         /\ UNCHANGED <<returnsTable, dialogOpen, formData>>
    ELSE /\ returnsTable' = <<calls[i].row>> \o returnsTable
         /\ lastToast' = "Pengembalian Dibuat"
         /\ dialogOpen' = FALSE
         /\ formData' = EmptyForm
         /\ calls' = Append(RemoveAt(calls, i), fetchReturns)

\* handleSubmit (Returns.tsx:61-98) after an await.
ResumeHandleSubmit(i, a) ==
    IF calls[i].at = "getUser"
    THEN IF a = None
         THEN \* return
              /\ calls' = RemoveAt(calls, i)
              /\ UNCHANGED <<returnsTable, dialogOpen, formData, lastToast>>
         ELSE \* the insert is sent
              /\ calls' = [calls EXCEPT ![i] = [fn |-> "handleSubmit", at |-> "insert",
                                                 row |-> NewReturn(calls[i].form, a)]]
              /\ UNCHANGED <<returnsTable, dialogOpen, formData, lastToast>>
    ELSE IF a.error
    THEN \* throw; catch: console.error and toast
         /\ lastToast' = "Gagal membuat pengembalian"
         /\ calls' = RemoveAt(calls, i)
         /\ UNCHANGED <<returnsTable, dialogOpen, formData>>
    ELSE \* the row is in the table; toast, close, reset, fetchReturns()
         /\ returnsTable' = <<calls[i].row>> \o returnsTable
         /\ lastToast' = "Pengembalian Dibuat"
         /\ dialogOpen' = FALSE
         /\ formData' = EmptyForm
         /\ calls' = Append(RemoveAt(calls, i), fetchReturns)

\* The await of call i resumes with answer a.
ResumeCall(i, a) ==
    IF calls[i].fn = "fetchReturns"
    THEN /\ ResumeFetchReturns(i, a)
         /\ UNCHANGED <<dialogOpen, formData, returnsView, returnsTable, now,
                        analyticsVars, widgetVars>>
    ELSE /\ ResumeHandleSubmit(i, a)
         /\ UNCHANGED <<returns, returnsLoading, returnsView, now, analyticsVars, widgetVars>>

ReturnsRespond ==
    \E i \in 1..Len(calls) : \E a \in CallAnswers(calls[i]) : ResumeCall(i, a)

\* The decisions taken on returns here.  The page shows whatever status it
\* fetched, so one of approved and rejected stands for both.
Decisions == {"rejected"}

\* Whoever reviews returns sets a pending row to approved or rejected.
Decide(k, status) ==
    /\ k \in 1..Len(returnsTable)
    /\ returnsTable[k].status = "pending"
    /\ returnsTable' = [returnsTable EXCEPT ![k].status = status]
    /\ UNCHANGED <<returns, returnsLoading, dialogOpen, formData, returnsView, calls,
                   now, lastToast, analyticsVars, widgetVars>>

ReturnsNext ==
    \/ ReturnsMount
    \/ \E open \in BOOLEAN : setDialogOpen(open)
    \/ \E field \in DOMAIN FieldValues : \E value \in FieldValues[field] :
         handleChange(field, value)
    \/ handleSubmit
    \/ ReturnsRespond
    \/ \E k \in 1..MaxReturns : \E status \in Decisions : Decide(k, status)
    \/ Tick

\* The page is opened at the last instant but one, so that a submission may
\* read the same millisecond as the one before it or a later one.
ReturnsInit ==
    /\ products = <<>>
    /\ rejectedItems = <<>>
    /\ foodConditions = <<>>
    /\ loading = TRUE
    /\ view = "created"
    /\ channels = {}
    /\ inflight = <<>>
    /\ lastSettled = NotSettled
    /\ now \in {t \in Instants : Cardinality({u \in Instants : Before(t, u)}) = 1}
    /\ saved = NoFile
    /\ lastToast = None
    /\ display = Render
    /\ ReturnsConstructed
    /\ MenuConstructed
    /\ ProductDialogConstructed

ReturnsSpec == ReturnsInit /\ [][ReturnsNext]_vars

\* Text a number input accepts as a number (a fraction with no integer part,
\* of value zero) and parseInt does not read.
UnreadQuantities == {<<".","0">>}

\* The same page when the quantity may also be typed that way.
TypeUnread == \E value \in UnreadQuantities : handleChange("quantity", value)

ValidationNext == ReturnsNext \/ TypeUnread

ValidationSpec == ReturnsInit /\ [][ValidationNext]_vars

-----------------------------------------------------------------------------
(* Steps of the fetch cycle, recognised from a pair of states. *)

Loaded == <<products, rejectedItems, foodConditions>>

\* Cycle i leaves the in-flight list through the catch branch.
FailsNow(i) ==
    /\ i \in 1..Len(inflight)
    /\ inflight' = RemoveAt(inflight, i)
    /\ lastSettled'.outcome = "error"
    /\ lastSettled'.table = Tables[Len(inflight[i].got) + 1]

\* Cycle i leaves the in-flight list through the three setters.
AppliesNow(i) ==
    /\ i \in 1..Len(inflight)
    /\ inflight' = RemoveAt(Overtake(inflight, i), i)
    /\ lastSettled'.outcome = "applied"
    /\ Len(inflight[i].got) = 2
    /\ SubSeq(lastSettled'.received, 1, 2) = inflight[i].got

(* C11: a submission by a signed-in user that succeeds inserts exactly one *)
(* row: status "pending", return_number "RET-" followed by digits only,    *)
(* the milliseconds of the clock when the insert is sent, and the form's   *)
(* product_name, reason and quantity parsed to an integer ("5" gives 5).   *)

\* The digits of a return number.
NumberDigits(n) == SubSeq(n, Len(ReturnPrefix) + 1, Len(n))

C11_SubmitInsertsPendingRow ==
    [][ /\ \A i \in 1..Len(calls) :
             ( /\ Len(calls') = Len(calls)
               /\ \A j \in 1..Len(calls) : j # i => calls'[j] = calls[j]
               /\ calls[i].fn = "handleSubmit" /\ calls[i].at = "getUser"
               /\ calls'[i].at = "insert" ) =>
               LET row == calls'[i].row
                   form == calls[i].form
                   d == NumberDigits(row.return_number)
               IN  /\ row.status = "pending"
                   /\ row.user_id = User
                   /\ StartsWith(row.return_number, ReturnPrefix)
                   /\ IsDigits(d) /\ Len(d) = 13
                   /\ TextToNum(SubSeq(d, 1, 10)) = now.day * 86400 + now.ms \div 1000
                   /\ TextToNum(SubSeq(d, 11, 13)) = now.ms % 1000
                   /\ row.product_name = form.product_name
                   /\ row.reason = form.reason
                   /\ ~row.quantity.nan
                   /\ form.quantity = <<"5">> => row.quantity.value = 5
        /\ returnsTable' # returnsTable /\ calls' # calls =>
             \E i \in 1..Len(calls) :
               /\ calls[i].fn = "handleSubmit" /\ calls[i].at = "insert"
               /\ returnsTable' = <<calls[i].row>> \o returnsTable
               /\ calls' = Append(RemoveAt(calls, i), fetchReturns)
               /\ lastToast' = "Pengembalian Dibuat" ]_vars

C11_Witness ==
    /\ Len(returnsTable) = 1
    /\ returnsTable[1].status = "pending"
    /\ returnsTable[1].return_number
         = <<"R","E","T","-","1","8","6","1","9","1","9","9","9","9","9","9","9">>
    /\ returnsTable[1].product_name = Beras
    /\ returnsTable[1].quantity = [nan |-> FALSE, value |-> 5]
    /\ returnsTable[1].reason = Rusak
    /\ lastToast = "Pengembalian Dibuat"
    /\ ~dialogOpen /\ formData = EmptyForm

(* C12: the Returns page writes to the table only by inserting a pending   *)
(* row: no step of the page changes a row that exists, and the list it     *)
(* shows changes only by taking what a fetch has just returned: the rows   *)
(* of the table, or none when the answer holds no data.                    *)

C12_PageOnlyInsertsPending ==
    /\ [](\A i \in 1..Len(calls) :
            (calls[i].fn = "handleSubmit" /\ calls[i].at = "insert") =>
              calls[i].row.status = "pending")
    /\ [][ calls' # calls =>
             \/ returnsTable' = returnsTable
             \/ /\ Tail(returnsTable') = returnsTable
                /\ returnsTable'[1].status = "pending" ]_vars
    /\ [][ returns' # returns =>
             \E i \in 1..Len(calls) :
               /\ calls[i].fn = "fetchReturns" /\ calls[i].at = "select"
               /\ calls' = RemoveAt(calls, i)
               /\ returns' \in {returnsTable, <<>>}
               /\ returnsTable' = returnsTable ]_vars

C12_Witness ==
    /\ Len(returns) = 1 /\ Len(returnsTable) = 1
    /\ returns[1].status = "pending"
    /\ returnsTable[1].status = "rejected"
    /\ calls = <<>>

(* C13: every fetch or write failure is caught, logged and shown to the    *)
(* user as a notification, is not retried, and leaves the UI interactive.  *)
(* Stated for fetchAllData: after a failed cycle the failure is logged,    *)
(* loading is cleared and the most recent toast reports the failure.       *)

C13_FailureIsNotified ==
    lastSettled.outcome = "error" =>
      /\ lastSettled.logged
      /\ ~loading
      /\ lastToast \notin {None, "PDF Exported", "Excel Exported"}

(* C14: when one query of a fetch cycle fails, the results of the other    *)
(* queries of that cycle are still applied to the loaded record sets.      *)

C14_OthersStillApplied ==
    [][ \A i \in 1..Len(inflight) :
          FailsNow(i) =>
            /\ Len(inflight[i].got) >= 1 => products' = OrEmpty(inflight[i].got[1])
            /\ Len(inflight[i].got) >= 2 => rejectedItems' = OrEmpty(inflight[i].got[2]) ]_vars

(* C14 as amended: when one query of a fetch cycle fails, nothing that     *)
(* cycle received is applied: the three loaded record sets stay as they    *)
(* were, loading is cleared, and nothing but the console log tells of it.  *)

C14_FailedCycleAppliesNothing ==
    [][ \A i \in 1..Len(inflight) :
          FailsNow(i) =>
            /\ Loaded' = Loaded
            /\ ~loading'
            /\ lastSettled'.logged
            /\ lastToast' = lastToast ]_vars

C14_Witness ==
    /\ lastSettled.outcome = "error"
    /\ lastSettled.table = "food_conditions"
    /\ products = <<>> /\ rejectedItems = <<>> /\ foodConditions = <<>>
    /\ ~loading

(* C15: when the view is torn down both channels are released, and from    *)
(* then on no change notification starts a fetch.                          *)

C15_TeardownReleasesChannels ==
    /\ [](view = "unmounted" => channels = {})
    /\ [][view = "unmounted" => Len(inflight') <= Len(inflight)]_vars

C15_Witness ==
    /\ view = "unmounted"
    /\ channels = {}
    /\ inflight = <<>>
    /\ lastSettled.outcome = "applied"

(* C16: while the view is mounted a change notification on the products or *)
(* the rejected_items channel starts a new fetch cycle, which begins with  *)
(* the products query, whatever is already in flight.                      *)

C16_EveryNotificationFetches ==
    (view = "mounted" /\ Len(inflight) < MaxInflight) =>
      \A t \in {"products", "rejected_items"} :
        ENABLED (Notify(t) /\ inflight' = Append(inflight, NewCycle))

C16_Witness ==
    /\ view = "mounted"
    /\ Len(inflight) = 2
    /\ Len(inflight[1].got) = 2
    /\ inflight[2].got = <<>>

(* C18: a fetch cycle changes the loaded record sets only when it settles  *)
(* without an error, and then it replaces all three by what that same      *)
(* cycle received; a cycle that fails leaves all three as they were.       *)

C18_CycleIsAtomic ==
    [][ /\ Loaded' # Loaded =>
             \E i \in 1..Len(inflight) :
               /\ AppliesNow(i)
               /\ \A k \in 1..3 : ~lastSettled'.received[k].error
               /\ products' = OrEmpty(lastSettled'.received[1])
               /\ rejectedItems' = OrEmpty(lastSettled'.received[2])
               /\ foodConditions' = OrEmpty(lastSettled'.received[3])
        /\ \A i \in 1..Len(inflight) : FailsNow(i) => Loaded' = Loaded ]_vars

C18_Witness ==
    /\ lastSettled.outcome = "applied"
    /\ products # <<>> /\ rejectedItems = <<>> /\ foodConditions # <<>>
    /\ Len(inflight) = 1
    /\ Len(inflight[1].got) = 2
    /\ inflight[1].got[1].data = <<>>
    /\ inflight[1].got[2].data # <<>>

(* C20: loading is true until the first fetch cycle settles, with or       *)
(* without an error, and false from then on; nothing else clears it, so a  *)
(* first fetch that never settles leaves it true.                          *)

C20_LoadingUntilFirstSettle ==
    /\ [](loading <=> lastSettled.outcome = None)
    /\ [][~loading => ~loading']_vars

C20_Witness ==
    /\ ~loading
    /\ lastSettled.outcome = "error"
    /\ Len(inflight) > 0

(* C17: in every reachable state the four aggregates on the page are the   *)
(* aggregate functions applied to the record sets loaded at that moment;   *)
(* nothing shown is left over from an earlier set.                         *)

C17_DisplayIsDerived ==
    /\ display.spinner = loading
    /\ ~loading =>
         /\ display.value = ReduceValue(products)
         /\ display.stock = ReduceStock(products)
         /\ display.rejected = ReduceRejected(rejectedItems)
         /\ display.passRate = PassRate(foodConditions).text

C17_Witness ==
    /\ lastSettled.outcome = "error"
    /\ ~display.spinner
    /\ display.value = 240000 /\ display.stock = 20
    /\ display.rejected = 4
    /\ Len(display.passRate) > 1

(* C19: nothing orders the settling of overlapping fetch cycles: a cycle   *)
(* started before one that has already been applied can still settle, and  *)
(* when it does its older answers replace the loaded record sets.          *)

C19_OvertakenCycleStillApplies ==
    \A i \in 1..Len(inflight) :
      (inflight[i].overtaken /\ Len(inflight[i].got) = 2) =>
        ENABLED ( /\ Resume(i, Rows(<<>>))
                  /\ UNCHANGED <<view, channels, now, saved, lastToast, returnsVars, widgetVars>>
                  /\ products' = OrEmpty(inflight[i].got[1])
                  /\ rejectedItems' = OrEmpty(inflight[i].got[2])
                  /\ foodConditions' = <<>>
                  /\ lastSettled'.outcome = "applied"
                  /\ lastSettled'.stale )

C19_Witness ==
    /\ lastSettled.outcome = "applied"
    /\ lastSettled.stale
    /\ products = <<>> /\ rejectedItems # <<>>

(* C23: a fetch cycle in flight when the view is torn down is not          *)
(* cancelled: once its last query answers it runs the three setters on the *)
(* torn-down view, as it would have before the teardown.                   *)

C23_InflightCycleOutlivesTeardown ==
    view = "unmounted" =>
      \A i \in 1..Len(inflight) :
        Len(inflight[i].got) = 2 =>
          ENABLED ( /\ Resume(i, Rows(<<>>))
                    /\ UNCHANGED <<view, channels, now, saved, lastToast, returnsVars, widgetVars>>
                    /\ products' = OrEmpty(inflight[i].got[1])
                    /\ rejectedItems' = OrEmpty(inflight[i].got[2])
                    /\ foodConditions' = <<>>
                    /\ ~loading'
                    /\ lastSettled'.outcome = "applied"
                    /\ lastSettled'.afterTeardown )

C23_Witness ==
    /\ view = "unmounted" /\ channels = {}
    /\ lastSettled.outcome = "applied"
    /\ lastSettled.afterTeardown
    /\ products # <<>> /\ rejectedItems # <<>> /\ foodConditions # <<>>
    /\ ~loading

(* C24: the view listens to products and rejected_items only: no           *)
(* notification about food_conditions reaches it, so none starts a fetch,  *)
(* and the cards change only when a fetch cycle settles.                   *)

C24_NoConditionsChannel ==
    /\ "food_conditions" \notin channels
    /\ ~ENABLED Notify("food_conditions")
    /\ view = "mounted" => channels = {"products", "rejected_items"}

C24_Witness ==
    /\ view = "mounted"
    /\ inflight = <<>>
    /\ lastSettled.outcome = "applied"
    /\ foodConditions # <<>>
    /\ Len(display.passRate) > 1

-----------------------------------------------------------------------------
(* C21: a submission whose quantity does not parse to an integer sends no  *)
(* insert: neither an insert in flight nor a row of the table carries a    *)
(* quantity that is not a number.                                          *)

C21_UnparsedQuantityNotSent ==
    /\ \A i \in 1..Len(calls) :
         (calls[i].fn = "handleSubmit" /\ calls[i].at = "insert") => ~calls[i].row.quantity.nan
    /\ \A k \in 1..Len(returnsTable) : ~returnsTable[k].quantity.nan

(* C25: when the insert of handleSubmit succeeds the dialog is closed, the *)
(* form is emptied and one fetchReturns call is started; when it fails the *)
(* dialog and the form are left as they are, the list and the table are    *)
(* unchanged and no call is started.                                       *)

Fetches(q) == Cardinality({j \in 1..Len(q) : q[j].fn = "fetchReturns"})

C25_SubmitOutcome ==
    [][ \A i \in 1..Len(calls) :
          (calls[i].fn = "handleSubmit" /\ calls[i].at = "insert") =>
            /\ (Len(returnsTable') > Len(returnsTable)
                  /\ calls' = Append(RemoveAt(calls, i), fetchReturns)) =>
                 /\ returnsTable' = <<calls[i].row>> \o returnsTable
                 /\ ~dialogOpen'
                 /\ formData' = EmptyForm
                 /\ lastToast' = "Pengembalian Dibuat"
                 /\ Fetches(calls') = Fetches(calls) + 1
                 /\ Len(calls') = Len(calls)
                 /\ returns' = returns
            /\ calls' = RemoveAt(calls, i) =>
                 /\ lastToast' = "Gagal membuat pengembalian"
                 /\ dialogOpen' = dialogOpen
                 /\ formData' = formData
                 /\ returns' = returns
                 /\ returnsTable' = returnsTable
                 /\ Fetches(calls') = Fetches(calls) ]_vars

C25_Witness ==
    /\ lastToast = "Gagal membuat pengembalian"
    /\ dialogOpen
    /\ formData = [product_name |-> Beras, quantity |-> <<"5">>, reason |-> Rusak]
    /\ returnsTable = <<>>
    /\ calls = <<>>

(* C26: when getUser answers no user, fetchReturns sends no query, leaves  *)
(* the list as it is and clears loading; handleSubmit sends no insert,     *)
(* raises no toast and leaves the dialog and the form as they are.         *)

WithoutUser(i) ==
    /\ calls' = RemoveAt(calls, i)
    /\ returns' = returns
    /\ returnsTable' = returnsTable
    /\ lastToast' = lastToast
    /\ dialogOpen' = dialogOpen
    /\ formData' = formData
    /\ returnsLoading' = (IF calls[i].fn = "fetchReturns" THEN FALSE ELSE returnsLoading)

C26_NoUserIsSilent ==
    \A i \in 1..Len(calls) :
      calls[i].at = "getUser" =>
        /\ ENABLED ResumeCall(i, None)
        /\ ~ENABLED (ResumeCall(i, None) /\ ~WithoutUser(i))

C26_Witness ==
    /\ Len(calls) = 2
    /\ calls[1] = fetchReturns
    /\ calls[2].fn = "handleSubmit" /\ calls[2].at = "getUser"
    /\ returnsLoading
    /\ dialogOpen
    /\ formData = [product_name |-> Beras, quantity |-> <<"5">>, reason |-> Rusak]
    /\ lastToast = "none"
    /\ ENABLED (ResumeCall(1, None) /\ WithoutUser(1) /\ ~returnsLoading')
    /\ ENABLED (ResumeCall(2, None) /\ WithoutUser(2) /\ dialogOpen' /\ calls' = <<fetchReturns>>)

(* C27: the return numbers the page generates are pairwise different, also *)
(* for submissions within one millisecond: no two of the rows in the table *)
(* and the inserts in flight carry the same return_number.                 *)

Generated ==
    [k \in 1..Len(returnsTable) |-> returnsTable[k].return_number]
      \o [j \in 1..Len(SelectSeq(calls, LAMBDA c : c.at = "insert")) |->
            SelectSeq(calls, LAMBDA c : c.at = "insert")[j].row.return_number]

C27_NumbersAreUnique ==
    \A j, k \in 1..Len(Generated) : j # k => Generated[j] # Generated[k]

-----------------------------------------------------------------------------
(* ProfileMenu (src/unnamed/part_000): the theme, read from local storage  *)
(* or the OS preference by the mount effect and flipped by toggleTheme.    *)

Themes == {"light", "dark"}

\* What localStorage.getItem("theme") can give: null, or a value toggleTheme wrote.
SavedThemes == {None} \cup Themes

Email == <<"a","@","b">>

\* What getUser can give ProfileMenu: no user, or a user with an email.
EmailAnswers == {None, Email}

\* The two pages before their first render, at the first instant.
PagesConstructed ==
    /\ products = <<>>
    /\ rejectedItems = <<>>
    /\ foodConditions = <<>>
    /\ loading = TRUE
    /\ view = "created"
    /\ channels = {}
    /\ inflight = <<>>
    /\ lastSettled = NotSettled
    /\ now = FirstInstant
    /\ saved = NoFile
    /\ lastToast = None
    /\ display = Render
    /\ ReturnsConstructed

\* savedTheme || (prefersDark ? "dark" : "light")   (part_000:24-26)
InitialTheme ==
    IF localTheme # None THEN localTheme
    ELSE IF prefersDark THEN "dark" ELSE "light"

\* Variant: the OS preference wins over the saved value.
MenuMount_PreferenceFirst ==
    /\ menuView # "mounted"
    /\ Len(emailCalls) < MaxInflight
    /\ menuView' = "mounted"
    /\ theme' = (IF prefersDark THEN "dark" ELSE "light")
    /\ darkClass' = prefersDark
    /\ emailCalls' = Append(emailCalls, TRUE)
    /\ UNCHANGED <<userEmail, localTheme, prefersDark, productDialogVars,
                   analyticsVars, returnsVars, now, lastToast>>

\* The first render and the mount effect (part_000:19-37).  The effect sets
\* the theme and the document class and starts getUser.
MenuMount ==
    /\ menuView # "mounted"
    /\ Len(emailCalls) < MaxInflight
    /\ menuView' = "mounted"
    /\ theme' = InitialTheme
    /\ darkClass' = (InitialTheme = "dark")
    /\ emailCalls' = Append(emailCalls, TRUE)
    /\ UNCHANGED <<userEmail, localTheme, prefersDark, productDialogVars,
                   analyticsVars, returnsVars, now, lastToast>>

\* getUser answers (part_000:32-36).  The callback of a menu that has been
\* unmounted since sets the state of a component that no longer exists.
MenuEmail(i, a) ==
    /\ i \in 1..Len(emailCalls)
    /\ emailCalls' = RemoveAt(emailCalls, i)
    /\ userEmail' = (IF emailCalls[i] /\ a # None THEN a ELSE userEmail)
    /\ UNCHANGED <<theme, menuView, localTheme, darkClass, prefersDark, productDialogVars,
                   analyticsVars, returnsVars, now, lastToast>>

\* Variant: the new theme is not written to local storage.
toggleTheme_NotSaved ==
    /\ menuView = "mounted"
    /\ LET newTheme == IF theme = "light" THEN "dark" ELSE "light"
       IN  /\ theme' = newTheme
           /\ darkClass' = (newTheme = "dark")
           /\ lastToast' = "Tema Diubah"
    /\ UNCHANGED <<userEmail, menuView, emailCalls, localTheme, prefersDark,
                   productDialogVars, analyticsVars, returnsVars, now>>

\* toggleTheme (part_000:39-48).
toggleTheme ==
    /\ menuView = "mounted"
    /\ LET newTheme == IF theme = "light" THEN "dark" ELSE "light"
       IN  /\ theme' = newTheme
           /\ localTheme' = newTheme
           /\ darkClass' = (newTheme = "dark")
           /\ lastToast' = "Tema Diubah"
    /\ UNCHANGED <<userEmail, menuView, emailCalls, prefersDark, productDialogVars,
                   analyticsVars, returnsVars, now>>

\* The user changes the OS colour scheme.  ProfileMenu listens to no change
\* of the media query (part_000:24 reads .matches once).
PreferenceChanges ==
    /\ prefersDark' = ~prefersDark
    /\ UNCHANGED <<theme, userEmail, menuView, emailCalls, localTheme, darkClass,
                   productDialogVars, analyticsVars, returnsVars, now, lastToast>>

\* The menu leaves the page: its state is discarded, so that the next mount
\* starts from the useState initial values (part_000:19-20).  Local storage
\* and the document class stay.
MenuUnmount ==
    /\ menuView = "mounted"
    /\ menuView' = "unmounted"
    /\ theme' = "light"
    /\ userEmail' = <<>>
    /\ emailCalls' = [i \in 1..Len(emailCalls) |-> FALSE]
    /\ UNCHANGED <<localTheme, darkClass, prefersDark, productDialogVars,
                   analyticsVars, returnsVars, now, lastToast>>

MenuInit ==
    /\ PagesConstructed
    /\ ProductDialogConstructed
    /\ theme = "light"
    /\ userEmail = <<>>
    /\ menuView = "created"
    /\ emailCalls = <<>>
    /\ localTheme \in SavedThemes
    /\ darkClass = FALSE
    /\ prefersDark \in BOOLEAN

MenuNext ==
    \/ MenuMount
    \/ \E i \in 1..Len(emailCalls) : \E a \in EmailAnswers : MenuEmail(i, a)
    \/ toggleTheme
    \/ PreferenceChanges
    \/ MenuUnmount

MenuSpec == MenuInit /\ [][MenuNext]_vars

(* C22: the theme is read at mount, the saved value first and the OS       *)
(* preference otherwise, and changes only by toggleTheme; a toggle flips   *)
(* the theme and at once writes it to local storage and to the document    *)
(* class; so while the menu is mounted the document class follows the      *)
(* theme, and so does the saved value once there is one.                   *)

Flipped(t) == IF t = "light" THEN "dark" ELSE "light"

C22_ThemeStaysInStep ==
    /\ [](menuView = "mounted" =>
            /\ theme \in Themes
            /\ darkClass = (theme = "dark")
            /\ localTheme # None => localTheme = theme
            /\ ENABLED toggleTheme
            /\ ~ENABLED (toggleTheme /\ ~(/\ theme' = Flipped(theme)
                                          /\ localTheme' = theme'
                                          /\ darkClass' = (theme' = "dark"))))
    /\ [][ /\ (menuView # "mounted" /\ menuView' = "mounted") =>
                /\ theme' = (IF localTheme # None THEN localTheme
                             ELSE IF prefersDark THEN "dark" ELSE "light")
                /\ localTheme' = localTheme
           /\ (menuView = "mounted" /\ menuView' = "mounted" /\ theme' # theme) =>
                /\ theme' = Flipped(theme)
                /\ localTheme' = theme'
                /\ lastToast' = "Tema Diubah"
           /\ localTheme' # localTheme => (menuView = "mounted" /\ theme' = Flipped(theme))
           /\ darkClass' # darkClass => (theme' # theme \/ menuView' # menuView)
         ]_vars

C22_Witness ==
    /\ menuView = "mounted"
    /\ lastToast = "Tema Diubah"
    /\ theme = "light"
    /\ localTheme = "light"
    /\ ~darkClass
    /\ prefersDark
    /\ userEmail = Email

-----------------------------------------------------------------------------
(* ProductDialog (src/src/components/products/ProductDialog.tsx): a form   *)
(* held by useForm, reset when the product prop changes, and the calls it  *)
(* makes to its parent when it is submitted or cancelled.                  *)

Wortel == <<"W","o","r","t","e","l">>

\* The products the parent can pass for editing.
EditableProducts ==
    { [id |-> "p1", name |-> Beras, color |-> "Putih", category |-> "Biji-bijian",
       price |-> 12000, quantity |-> 5],
      [id |-> "p2", name |-> Wortel, color |-> "Oranye", category |-> "Sayuran",
       price |-> 0, quantity |-> 1] }

\* What the inputs and the two selects can put into a field.
ProductFieldValues ==
    [ name     |-> {<<>>, Beras},
      color    |-> {"Putih"},
      category |-> {"Sayuran"},
      price    |-> {NaN, Number(12000)},
      quantity |-> {NaN, Number(5)} ]

\* The values the effect resets the form to (ProductDialog.tsx:47-65).
ResetValues(p) ==
    IF p # NoProduct
    THEN [name |-> p.name, color |-> p.color, category |-> p.category,
          price |-> Number(p.price), quantity |-> Number(p.quantity)]
    ELSE [name |-> <<>>, color |-> "", category |-> "", price |-> Number(0),
          quantity |-> Number(1)]

\* The rules given to register: name, price and quantity are required.
Valid(values) == values.name # <<>> /\ ~values.price.nan /\ ~values.quantity.nan

CloseRequest == [fn |-> "onOpenChange", open |-> FALSE]

\* The parent passes another product (or none); the effect on [product, reset]
\* runs after the render and resets the form, and reset(values) also makes
\* the values the defaults of the form (ProductDialog.tsx:47-65).
SetProduct(p) ==
    /\ p # product
    /\ product' = p
    /\ formValues' = ResetValues(p)
    /\ defaultValues' = ResetValues(p)
    /\ emitted' = <<>>
    /\ UNCHANGED <<openProp, menuVars, analyticsVars, returnsVars, now, lastToast>>

\* The parent opens or closes the dialog.
SetOpen(b) ==
    /\ b # openProp
    /\ openProp' = b
    /\ emitted' = <<>>
    /\ UNCHANGED <<product, formValues, defaultValues, menuVars, analyticsVars,
                   returnsVars, now, lastToast>>

\* An input or a select changes a field (ProductDialog.tsx:88, 95, 110, 130, 139).
SetField(field, value) ==
    /\ openProp
    /\ formValues' = [formValues EXCEPT ![field] = value]
    /\ emitted' = <<>>
    /\ UNCHANGED <<openProp, product, defaultValues, menuVars, analyticsVars,
                   returnsVars, now, lastToast>>

\* Variant: the dialog is asked to close before the data is handed over.
handleFormSubmit_ClosesFirst ==
    /\ openProp
    /\ Valid(formValues)
    /\ emitted' = <<CloseRequest, [fn |-> "onSubmit", data |-> formValues], [fn |-> "reset"]>>
    /\ formValues' = defaultValues
    /\ UNCHANGED <<openProp, product, defaultValues, menuVars, analyticsVars,
                   returnsVars, now, lastToast>>

\* The form is submitted: handleSubmit validates and, when the values are
\* valid, calls handleFormSubmit with them (ProductDialog.tsx:67-71, 83).
\* reset() puts the default values back.
handleFormSubmit ==
    /\ openProp
    /\ Valid(formValues)
    /\ emitted' = <<[fn |-> "onSubmit", data |-> formValues], [fn |-> "reset"], CloseRequest>>
    /\ formValues' = defaultValues
    /\ UNCHANGED <<openProp, product, defaultValues, menuVars, analyticsVars,
                   returnsVars, now, lastToast>>

\* The button Batal (ProductDialog.tsx:146-148).
Cancel ==
    /\ openProp
    /\ emitted' = <<CloseRequest>>
    /\ UNCHANGED <<openProp, product, formValues, defaultValues, menuVars, analyticsVars,
                   returnsVars, now, lastToast>>

\* The dialog itself asks to close, on Escape or a click outside; it is
\* given the parent's onOpenChange as it is (ProductDialog.tsx:74).
Dismiss ==
    /\ openProp
    /\ emitted' = <<CloseRequest>>
    /\ UNCHANGED <<openProp, product, formValues, defaultValues, menuVars, analyticsVars,
                   returnsVars, now, lastToast>>

\* ProductDialog after its first render and effect, with whatever product
\* the parent passes.
ProductDialogInit ==
    /\ PagesConstructed
    /\ MenuConstructed
    /\ openProp \in BOOLEAN
    /\ product \in {NoProduct} \cup EditableProducts
    /\ formValues = ResetValues(product)
    /\ defaultValues = ResetValues(product)
    /\ emitted = <<>>

ProductDialogNext ==
    \/ \E p \in {NoProduct} \cup EditableProducts : SetProduct(p)
    \/ \E b \in BOOLEAN : SetOpen(b)
    \/ \E field \in DOMAIN ProductFieldValues :
         \E value \in ProductFieldValues[field] : SetField(field, value)
    \/ handleFormSubmit
    \/ Cancel
    \/ Dismiss

ProductDialogSpec == ProductDialogInit /\ [][ProductDialogNext]_vars

(* C28: a submission of valid values calls onSubmit once with the values   *)
(* of the form, then reset, then onOpenChange(false), in that order, and   *)
(* leaves the form at its default values; Cancel calls onOpenChange(false) *)
(* and never onSubmit; and whenever the product prop changes the form      *)
(* holds the fields of the new product, or the empty defaults with         *)
(* quantity 1 and price 0 when there is none.                              *)

Submissions(e) == Cardinality({k \in 1..Len(e) : e[k].fn = "onSubmit"})

C28_SubmitProtocol ==
    /\ []( /\ (openProp /\ Valid(formValues)) =>
                /\ ENABLED handleFormSubmit
                /\ ~ENABLED (handleFormSubmit /\ ~( /\ Len(emitted') = 3
                                                    /\ emitted'[1] = [fn |-> "onSubmit", data |-> formValues]
                                                    /\ emitted'[2] = [fn |-> "reset"]
                                                    /\ emitted'[3] = CloseRequest
                                                    /\ formValues' = defaultValues ))
           /\ openProp =>
                /\ ENABLED Cancel
                /\ ~ENABLED (Cancel /\ ~( /\ emitted' = <<CloseRequest>>
                                          /\ formValues' = formValues ))
           /\ Submissions(emitted) <= 1
           /\ Submissions(emitted) = 1 => Valid(emitted[1].data) )
    /\ [][ /\ (Submissions(emitted') = 1 /\ emitted' # emitted) =>
                (openProp /\ Valid(formValues) /\ emitted'[1].data = formValues)
           /\ product' # product =>
                formValues' = (IF product' = NoProduct
                               THEN [name |-> <<>>, color |-> "", category |-> "",
                                     price |-> Number(0), quantity |-> Number(1)]
                               ELSE [name |-> product'.name, color |-> product'.color,
                                     category |-> product'.category,
                                     price |-> Number(product'.price),
                                     quantity |-> Number(product'.quantity)])
         ]_vars

C28_Witness ==
    /\ openProp
    /\ product = NoProduct
    /\ Len(emitted) = 3
    /\ emitted[1] = [fn |-> "onSubmit",
                     data |-> [name |-> Beras, color |-> "Putih", category |-> "Sayuran",
                               price |-> Number(12000), quantity |-> Number(5)]]
    /\ emitted[3] = CloseRequest
    /\ formValues = EmptyProduct

====
